---- MODULE Spec2Model ----
(***************************************************************************)
(* A model of the card engine of src/main.py (class CardSystem): the       *)
(* secrets table and the cards table of the SQLite store, the engines      *)
(* (CardSystem instances, one per process) that share the store, and the   *)
(* operations __init__ / _load_or_generate_key, generate_card,             *)
(* verify_card, mark_as_used and get_card_stats.                           *)
(*                                                                         *)
(* Strings are sequences of one-character strings.  A nullable value       *)
(* (Python None, SQL NULL) is the empty sequence and a present value v is  *)
(* <<v>>.  The raw part and the signature keep their role but are shorter  *)
(* than in the source (RawLen, SigLen); the alphabet keeps the letters,    *)
(* and the symbol '#', of the source's charset.                            *)
(***************************************************************************)
EXTENDS Integers, Sequences, FiniteSets, TLC

\* ------------------------------------------------------------------ bounds
\* length of a raw part (16 in the source, line 69 and line 106)
RawLen == 1
\* length of a signature (10 in the source, lines 70, 106, 109)
SigLen == 1
\* number of distinct values secrets.token_bytes(32) may return
NumKeys == 2
\* largest batch_size passed to generate_card
MaxBatch == 2
\* largest number of rows the cards table may hold
MaxCards == 2
\* largest usage_count a row is driven to
MaxUses == 2
\* latest value of CURRENT_TIMESTAMP
MaxClock == 1

\* ------------------------------------------------------- program constants
\* max_attempts of generate_card
max_attempts == 5

\* the engines (processes, each constructing one CardSystem)
Engines == {1, 2}

None == <<>>
Some(v) == <<v>>

\* the separator of a token
Sep == "#"
\* charset of generate_card: letters, digits and symbols, '#' among them
charset == {"A", "B", "#"}
\* the digits of a hexdigest
HexDigits == <<"0", "1", "2", "3", "4", "5", "6", "7",
               "8", "9", "a", "b", "c", "d", "e", "f">>
\* a character outside ASCII, which a caller may type into a token
NonAscii == "e-acute"
\* every character a token may hold, in code order
AllChars == <<"A", "B", "#">> \o HexDigits \o <<NonAscii>>

Keys == 1..NumKeys
NoKey == 0

\* ------------------------------------------------------------------ signer
CharCode(c) == CHOOSE i \in 1..Len(AllChars) : AllChars[i] = c

RECURSIVE Pow(_, _)
Pow(b, n) == IF n = 0 THEN 1 ELSE b * Pow(b, n - 1)

\* a digest has one hex digit more than a signature keeps
DigestLen == SigLen + 1
HashMod == Pow(16, DigestLen)

\* the keyed hash: absorbs the message one character at a time into a state
\* that starts from the key
RECURSIVE Absorb(_, _)
Absorb(h, msg) ==
    IF msg = <<>> THEN h
    ELSE Absorb((h * 31 + CharCode(Head(msg)) * 53 + 3) % HashMod, Tail(msg))

hmac_digest(k, msg) == Absorb((k * 97 + 11) % HashMod, msg)

\* hexdigest(): the digest as DigestLen hex digits, most significant first
hexdigest(n) ==
    [i \in 1..DigestLen |-> HexDigits[((n \div Pow(16, DigestLen - i)) % 16) + 1]]

\* hmac.new(key, raw.encode(), 'sha3_256').hexdigest()[:10]
Sign(k, raw) == SubSeq(hexdigest(hmac_digest(k, raw)), 1, SigLen)

\* ------------------------------------------------------------------ tokens
\* ''.join(secrets.choice(charset) for _ in range(16))
RawParts == [1..RawLen -> charset]

\* f"{raw}#{signature}"
CardId(raw, sig) == raw \o <<Sep>> \o sig

\* the tuple appended to cards in generate_card: (card_id, raw, signature)
Candidate(k, raw) ==
    [card_id |-> CardId(raw, Sign(k, raw)), raw_part |-> raw, signature |-> Sign(k, raw)]

\* '#' in card
Contains(s, c) == \E i \in 1..Len(s) : s[i] = c

\* card.split('#', 1) of a card that contains '#': the text before the first
\* separator and the text after it
FirstSep(s) == CHOOSE i \in 1..Len(s) : s[i] = Sep /\ \A j \in 1..(i - 1) : s[j] # Sep
SplitOnce(s) ==
    [raw |-> SubSeq(s, 1, FirstSep(s) - 1), sign |-> SubSeq(s, FirstSep(s) + 1, Len(s))]

\* ------------------------------------------------------------------- state
VARIABLES
    secret,      \* the secrets table: None, or Some(value of row 'hmac_key')
    cards,       \* the cards table: card_id -> row
    clock,       \* CURRENT_TIMESTAMP
    pc,          \* per engine: where its process stands
    key,         \* per engine: self.key
    new_key,     \* per engine: new_key of _load_or_generate_key
    attempts,    \* per engine: attempts of generate_card
    batch_size,  \* per engine: batch_size of generate_card
    last,        \* the last call that returned or raised, with its result
    txn,         \* per engine: the connection mark_as_used holds open, if any
    flow         \* per engine: n and v of the confirm-and-redeem flow, if any

vars == <<secret, cards, clock, pc, key, new_key, attempts, batch_size, last,
          txn, flow>>

\* a row as INSERT INTO cards (card_id, raw_part, signature) creates it, the
\* other columns taking their defaults
NewRow(cand, now) ==
    [raw_part |-> cand.raw_part, signature |-> cand.signature, created_at |-> now,
     is_used |-> FALSE, used_at |-> None, usage_count |-> 0]

\* CREATE TABLE IF NOT EXISTS cards: the table of a new store has no row
NoRows == [id \in {} |-> None]

Init ==
    /\ secret = None
    /\ cards = NoRows
    /\ clock = 0
    /\ pc = [e \in Engines |-> "down"]
    /\ key = [e \in Engines |-> NoKey]
    /\ new_key = [e \in Engines |-> NoKey]
    /\ attempts = [e \in Engines |-> 0]
    /\ batch_size = [e \in Engines |-> 0]
    /\ last = [op |-> "none"]
    /\ txn = [e \in Engines |-> None]
    /\ flow = [e \in Engines |-> None]

\* the sum of col[x] over the x in ids: SUM(column) of get_card_stats, the
\* column given as card_id -> number
RECURSIVE SumCol(_, _)
SumCol(col, ids) ==
    IF ids = {} THEN 0
    ELSE LET id == CHOOSE x \in ids : TRUE
         IN  col[id] + SumCol(col, ids \ {id})

\* ---------------------------------------------------------- the connection
\* executemany with INSERT OR IGNORE in place of INSERT: a card_id already in
\* the table is skipped and the run goes on
RECURSIVE executemany_or_ignore(_, _, _)
executemany_or_ignore(conn, rows, now) ==
    IF rows = <<>> THEN [conn |-> conn, error |-> FALSE]
    ELSE IF Head(rows).card_id \in DOMAIN conn
    THEN executemany_or_ignore(conn, Tail(rows), now)
    ELSE executemany_or_ignore(
            [id \in DOMAIN conn \cup {Head(rows).card_id} |->
                IF id \in DOMAIN conn THEN conn[id] ELSE NewRow(Head(rows), now)],
            Tail(rows), now)

\* INSERT INTO cards ... run once per tuple of rows, in order, inside the
\* transaction the first INSERT opens: a card_id already in the table (as the
\* transaction sees it) raises IntegrityError and ends the run, the rows
\* inserted before it staying in the open transaction
RECURSIVE executemany(_, _, _)
executemany(conn, rows, now) ==
    IF rows = <<>> THEN [conn |-> conn, error |-> FALSE]
    ELSE IF Head(rows).card_id \in DOMAIN conn THEN [conn |-> conn, error |-> TRUE]
    ELSE executemany(
            [id \in DOMAIN conn \cup {Head(rows).card_id} |->
                IF id \in DOMAIN conn THEN conn[id] ELSE NewRow(Head(rows), now)],
            Tail(rows), now)

\* a connection in autocommit mode: every statement that ran is kept
db_close_autocommit(persisted, conn, committed) == conn

\* _db_connection: conn.close() in the finally clause.  What the table holds
\* once the connection is closed: the transaction's rows if commit() was
\* reached, the rows from before the transaction otherwise
db_close(persisted, conn, committed) == IF committed THEN conn ELSE persisted

\* ------------------------------------------------------ key custodian
\* _load_or_generate_key, lines 49-55: the SELECT, and the choice of a new key
\* when it finds no row
LoadKeySelect(e) ==
    /\ pc[e] = "down"
    /\ IF secret # None
       THEN /\ key' = [key EXCEPT ![e] = secret[1]]
            /\ pc' = [pc EXCEPT ![e] = "ready"]
            /\ UNCHANGED new_key
       ELSE /\ \E k \in Keys : new_key' = [new_key EXCEPT ![e] = k]
            /\ pc' = [pc EXCEPT ![e] = "keygen"]
            /\ UNCHANGED key
    /\ UNCHANGED <<secret, cards, clock, attempts, batch_size, last, txn, flow>>

\* INSERT OR REPLACE INTO secrets: a stored secret is overwritten
key_insert_or_replace(stored, k) == [secret |-> Some(k), raised |-> FALSE, key |-> k]

\* the outcome of INSERT INTO secrets: the row is written when the table has
\* none, and the primary key raises IntegrityError when it has one; nothing
\* catches the error, so __init__ raises and no CardSystem is constructed
key_insert(stored, k) ==
    IF stored = None
    THEN [secret |-> Some(k), raised |-> FALSE, key |-> k]
    ELSE [secret |-> stored, raised |-> TRUE, key |-> NoKey]

\* _load_or_generate_key, lines 56-59: INSERT, commit, return new_key
LoadKeyInsert(e) ==
    /\ pc[e] = "keygen"
    /\ LET r == key_insert(secret, new_key[e]) IN
        /\ secret' = r.secret
        /\ key' = [key EXCEPT ![e] = r.key]
        /\ pc' = [pc EXCEPT ![e] = IF r.raised THEN "init_failed" ELSE "ready"]
    /\ new_key' = [new_key EXCEPT ![e] = NoKey]
    /\ UNCHANGED <<cards, clock, attempts, batch_size, last, txn, flow>>

\* the process of an engine ends (after a failed construction, or between two
\* calls); the store stays.  The engine may then be started again
Restart(e) ==
    /\ pc[e] \in {"ready", "init_failed"}
    /\ pc' = [pc EXCEPT ![e] = "down"]
    /\ key' = [key EXCEPT ![e] = NoKey]
    /\ UNCHANGED <<secret, cards, clock, new_key, attempts, batch_size, last, txn, flow>>

\* time passes
Tick ==
    /\ clock < MaxClock
    /\ clock' = clock + 1
    /\ UNCHANGED <<secret, cards, pc, key, new_key, attempts, batch_size, last, txn, flow>>

\* ---------------------------------------------------------------- generate
\* rows reserved by the calls of generate_card that are under way
Reserved == Cardinality(DOMAIN cards) + SumCol(batch_size, Engines)

\* generate_card, lines 62-64: the call, with its batch_size
Generate(e, n) ==
    /\ pc[e] = "ready"
    /\ Reserved + n <= MaxCards
    /\ pc' = [pc EXCEPT ![e] = "gen"]
    /\ attempts' = [attempts EXCEPT ![e] = 0]
    /\ batch_size' = [batch_size EXCEPT ![e] = n]
    /\ UNCHANGED <<secret, cards, clock, key, new_key, last, txn, flow>>

\* while attempts <= max_attempts
loop_continues_off_by_one(a) == a <= max_attempts

\* while attempts < max_attempts
loop_continues(a) == a < max_attempts

\* generate_card, lines 66-85: one pass of the loop.  A batch is drawn and
\* signed, and inserted in one transaction; the call returns the first card_id
\* when the insert commits; on IntegrityError the connection is closed without
\* a commit, attempts grows, and the call raises once the loop ends
GenerateAttempt(e) ==
    /\ pc[e] = "gen"
    /\ \E raws \in [1..batch_size[e] -> RawParts] :
        LET batch == [i \in 1..batch_size[e] |-> Candidate(key[e], raws[i])]
            r == executemany(cards, batch, clock)
            ids == [i \in 1..batch_size[e] |-> batch[i].card_id]
        IN  /\ cards' = db_close(cards, r.conn, ~r.error)
            /\ IF ~r.error
               THEN /\ pc' = [pc EXCEPT ![e] = "ready"]
                    /\ last' = [op |-> "generate", eng |-> e, raised |-> FALSE,
                                ret |-> batch[1].card_id, batch |-> ids,
                                failed |-> attempts[e]]
                    /\ attempts' = [attempts EXCEPT ![e] = 0]
                    /\ batch_size' = [batch_size EXCEPT ![e] = 0]
               ELSE IF loop_continues(attempts[e] + 1)
               THEN /\ attempts' = [attempts EXCEPT ![e] = attempts[e] + 1]
                    /\ UNCHANGED <<pc, last, batch_size>>
               ELSE /\ pc' = [pc EXCEPT ![e] = "ready"]
                    /\ last' = [op |-> "generate", eng |-> e, raised |-> TRUE,
                                ret |-> None, batch |-> ids,
                                failed |-> attempts[e] + 1]
                    /\ attempts' = [attempts EXCEPT ![e] = 0]
                    /\ batch_size' = [batch_size EXCEPT ![e] = 0]
    /\ UNCHANGED <<secret, clock, key, new_key, txn, flow>>

\* ------------------------------------------------------------------ verify
\* the dict verify_card returns
Result(valid, is_used, usage_count, error) ==
    [valid |-> valid, is_used |-> is_used, usage_count |-> usage_count, error |-> error]

ErrFormat == "invalid card format"
ErrLength == "length does not meet the requirement"
ErrSignature == "signature verification failed"
ErrNotFound == "card does not exist"
ErrStorage == "database error"

\* what may go wrong with the store during one call: nothing, sqlite3.connect
\* raising, a statement raising, commit raising (each a sqlite3.Error)
StoreFaults == {"none", "connect", "execute", "commit"}

\* how a call ends: it returns ret, or it raises the exception named; lookup
\* tells whether the call went as far as opening a connection to the store
Return(ret, lookup) == [raised |-> None, ret |-> Some(ret), lookup |-> lookup]
Raise(exc, lookup) == [raised |-> Some(exc), ret |-> None, lookup |-> lookup]

\* hmac.compare_digest on two str: TypeError unless both are ASCII
IsAscii(s) == \A i \in 1..Len(s) : s[i] # NonAscii

\* if '#' not in card
format_check_fails(card) == ~Contains(card, Sep)

\* a verify_card whose lookup is not inside a try
verify_card_uncaught(k, card, store, fault) ==
    IF format_check_fails(card)
    THEN Return(Result(FALSE, None, 0, Some(ErrFormat)), FALSE)
    ELSE LET raw == SplitOnce(card).raw
             sign == SplitOnce(card).sign
         IN  IF Len(raw) # RawLen \/ Len(sign) # SigLen
             THEN Return(Result(FALSE, None, 0, Some(ErrLength)), FALSE)
             ELSE IF ~IsAscii(sign)
             THEN Raise("TypeError", FALSE)
             ELSE IF sign # Sign(k, raw)
             THEN Return(Result(FALSE, None, 0, Some(ErrSignature)), FALSE)
             ELSE IF fault \in {"connect", "execute"}
             THEN Raise("OperationalError", TRUE)
             ELSE IF card \notin DOMAIN store
             THEN Return(Result(FALSE, None, 0, Some(ErrNotFound)), TRUE)
             ELSE Return(Result(TRUE, Some(store[card].is_used),
                                store[card].usage_count, None), TRUE)

\* a verify_card that takes a missing row for an unused card
verify_card_missing_row_valid(k, card, store, fault) ==
    IF format_check_fails(card)
    THEN Return(Result(FALSE, None, 0, Some(ErrFormat)), FALSE)
    ELSE LET raw == SplitOnce(card).raw
             sign == SplitOnce(card).sign
         IN  IF Len(raw) # RawLen \/ Len(sign) # SigLen
             THEN Return(Result(FALSE, None, 0, Some(ErrLength)), FALSE)
             ELSE IF ~IsAscii(sign)
             THEN Raise("TypeError", FALSE)
             ELSE IF sign # Sign(k, raw)
             THEN Return(Result(FALSE, None, 0, Some(ErrSignature)), FALSE)
             ELSE IF fault \in {"connect", "execute"}
             THEN Return(Result(FALSE, None, 0, Some(ErrStorage)), TRUE)
             ELSE IF card \notin DOMAIN store
             THEN Return(Result(TRUE, Some(FALSE), 0, None), TRUE)
             ELSE Return(Result(TRUE, Some(store[card].is_used),
                                store[card].usage_count, None), TRUE)

\* verify_card, lines 95-132, of an engine holding key k, on the table store,
\* the store failing as fault tells.  The checks run in the order of the code:
\* separator, lengths, signature (compare_digest), and only then, inside the
\* try, the connection and the SELECT; a sqlite3.Error raised there is caught
\* and reported in the result.  verify_card does not commit, so a fault of
\* commit cannot reach it
verify_card_io(k, card, store, fault) ==
    IF format_check_fails(card)
    THEN Return(Result(FALSE, None, 0, Some(ErrFormat)), FALSE)
    ELSE LET raw == SplitOnce(card).raw
             sign == SplitOnce(card).sign
         IN  IF Len(raw) # RawLen \/ Len(sign) # SigLen
             THEN Return(Result(FALSE, None, 0, Some(ErrLength)), FALSE)
             ELSE IF ~IsAscii(sign)
             THEN Raise("TypeError", FALSE)
             ELSE IF sign # Sign(k, raw)
             THEN Return(Result(FALSE, None, 0, Some(ErrSignature)), FALSE)
             ELSE IF fault \in {"connect", "execute"}
             THEN Return(Result(FALSE, None, 0, Some(ErrStorage)), TRUE)
             ELSE IF card \notin DOMAIN store
             THEN Return(Result(FALSE, None, 0, Some(ErrNotFound)), TRUE)
             ELSE Return(Result(TRUE, Some(store[card].is_used),
                                store[card].usage_count, None), TRUE)

\* the dict verify_card returns when the store answers, for a token of ASCII
\* characters
verify_card(k, card, store) == verify_card_io(k, card, store, "none").ret[1]

\* the tokens callers present: the cards issued, a well-formed token signed
\* under each key, and malformed and forged ones
AllA(n) == [i \in 1..n |-> "A"]
Malformed ==
    { AllA(RawLen + SigLen),                          \* no separator
      AllA(RawLen - 1) \o <<Sep>> \o Sign(1, AllA(RawLen)),   \* raw part too short
      AllA(RawLen) \o <<Sep>> \o [i \in 1..SigLen |-> Sep],     \* separators only after the raw part
      AllA(RawLen) \o <<Sep>> \o [i \in 1..SigLen |-> "A"] }   \* not a signature
Probes == {CardId(AllA(RawLen), Sign(k, AllA(RawLen))) : k \in Keys} \cup Malformed
Tokens == DOMAIN cards \cup Probes

\* a verify_card that also marks the card it finds as used
VerifyAndConsume(e, card) ==
    /\ pc[e] = "ready"
    /\ last' = [op |-> "verify", card |-> card,
                ret |-> verify_card(key[e], card, cards)]
    /\ cards' = IF verify_card(key[e], card, cards).valid
                THEN [cards EXCEPT ![card].is_used = TRUE]
                ELSE cards
    /\ UNCHANGED <<secret, clock, pc, key, new_key, attempts, batch_size, txn, flow>>

\* a call of verify_card by engine e
Verify(e, card) ==
    /\ pc[e] = "ready"
    /\ last' = [op |-> "verify", card |-> card,
                ret |-> verify_card(key[e], card, cards)]
    /\ UNCHANGED <<secret, cards, clock, pc, key, new_key, attempts, batch_size, txn, flow>>

\* ------------------------------------------------------------------ redeem
\* an UPDATE that leaves used_at alone
sql_update_used_keeps_used_at(store, card, now) ==
    IF card \in DOMAIN store
    THEN [conn |-> [store EXCEPT ![card] =
                        [@ EXCEPT !.is_used = TRUE, !.usage_count = @ + 1]],
          total_changes |-> 1]
    ELSE [conn |-> store, total_changes |-> 0]

\* UPDATE cards SET is_used = TRUE, used_at = CURRENT_TIMESTAMP,
\* usage_count = usage_count + 1 WHERE card_id = ?, and conn.total_changes
sql_update_used(store, card, now) ==
    IF card \in DOMAIN store
    THEN [conn |-> [store EXCEPT ![card] =
                        [@ EXCEPT !.is_used = TRUE, !.used_at = Some(now),
                                  !.usage_count = @ + 1]],
          total_changes |-> 1]
    ELSE [conn |-> store, total_changes |-> 0]

\* mark_as_used ending in "return True"
mark_as_used_returns_true(store, card, now) ==
    [cards |-> db_close(store, sql_update_used(store, card, now).conn, TRUE), ret |-> TRUE]

\* mark_as_used, lines 138-149: the update, the commit and the value returned
mark_as_used(store, card, now) ==
    LET u == sql_update_used(store, card, now)
    IN  [cards |-> db_close(store, u.conn, TRUE), ret |-> u.total_changes > 0]

\* a call of mark_as_used by engine e
Redeem(e, card) ==
    /\ pc[e] = "ready"
    /\ card \in DOMAIN cards => cards[card].usage_count < MaxUses
    /\ cards' = mark_as_used(cards, card, clock).cards
    /\ last' = [op |-> "mark_as_used", card |-> card,
                ret |-> mark_as_used(cards, card, clock).ret]
    /\ UNCHANGED <<secret, clock, pc, key, new_key, attempts, batch_size, txn, flow>>

\* mark_as_used, lines 134-151, the store failing as fault tells.  The
\* connection is opened by the with statement of line 138, outside the try: a
\* sqlite3.connect that raises is not caught.  A statement or a commit that
\* raises is caught by line 150, the connection is closed without a commit and
\* the call returns False
mark_as_used_io(store, card, now, fault) ==
    IF fault = "connect"
    THEN [cards |-> store, raised |-> Some("OperationalError"), ret |-> None]
    ELSE IF fault = "execute"
    THEN [cards |-> db_close(store, store, FALSE), raised |-> None, ret |-> Some(FALSE)]
    ELSE IF fault = "commit"
    THEN [cards |-> db_close(store, sql_update_used(store, card, now).conn, FALSE),
          raised |-> None, ret |-> Some(FALSE)]
    ELSE [cards |-> mark_as_used(store, card, now).cards,
          raised |-> None, ret |-> Some(mark_as_used(store, card, now).ret)]

\* ------------------------------------------------- calls on a failing store
\* s with its i-th character replaced by ch
Replace(s, i, ch) == [s EXCEPT ![i] = ch]

\* the characters a forger puts in place of one: hex digits, a letter of the
\* charset, the separator, a character outside ASCII
TamperChars == {HexDigits[1], HexDigits[16], "A", Sep, NonAscii}

\* the positions of the signature in a card_id
SigPositions(card) == (Len(card) - SigLen + 1)..Len(card)

\* the stored cards with one character of the signature replaced by another
Tampered ==
    UNION {{Replace(card, i, ch) : i \in SigPositions(card), ch \in TamperChars} :
              card \in DOMAIN cards} \ DOMAIN cards

\* the tokens presented to verify_card and mark_as_used in the runs with faults
IOTokens == Tokens \cup Tampered

\* a call of verify_card by engine e, the store failing as fault tells
VerifyIO(e, card, fault) ==
    /\ pc[e] = "ready"
    /\ last' = [op |-> "verify_card", card |-> card, fault |-> fault,
                out |-> verify_card_io(key[e], card, cards, fault)]
    /\ UNCHANGED <<secret, cards, clock, pc, key, new_key, attempts, batch_size, txn, flow>>

\* a call of mark_as_used by engine e, the store failing as fault tells
RedeemIO(e, card, fault) ==
    /\ pc[e] = "ready"
    /\ card \in DOMAIN cards => cards[card].usage_count < MaxUses
    /\ cards' = mark_as_used_io(cards, card, clock, fault).cards
    /\ last' = [op |-> "mark_as_used", card |-> card, fault |-> fault,
                raised |-> mark_as_used_io(cards, card, clock, fault).raised,
                out |-> mark_as_used_io(cards, card, clock, fault).ret]
    /\ UNCHANGED <<secret, clock, pc, key, new_key, attempts, batch_size, txn, flow>>

\* ------------------------------------------------------------------- stats
\* get_card_stats, lines 155-166; SUM, MIN and MAX over no row are NULL
get_card_stats(store) ==
    LET ids == DOMAIN store
        created == {store[id].created_at : id \in ids}
    IN  [total |-> Cardinality(ids),
         used_count |-> IF ids = {} THEN None ELSE Some(SumCol([id \in ids |-> IF store[id].is_used THEN 1 ELSE 0], ids)),
         total_uses |-> IF ids = {} THEN None ELSE Some(SumCol([id \in ids |-> store[id].usage_count], ids)),
         oldest |-> IF ids = {} THEN None
                    ELSE Some(CHOOSE t \in created : \A u \in created : t <= u),
         newest |-> IF ids = {} THEN None
                    ELSE Some(CHOOSE t \in created : \A u \in created : t >= u)]

\* a call of get_card_stats by engine e
Stats(e) ==
    /\ pc[e] = "ready"
    /\ last' = [op |-> "stats", ret |-> get_card_stats(cards)]
    /\ UNCHANGED <<secret, cards, clock, pc, key, new_key, attempts, batch_size, txn, flow>>

\* ------------------------------------------- mark_as_used, statement by statement
\* SQLite lets one connection at a time hold the write lock of the database
\* file: an UPDATE takes it before it reads the row, and commit gives it back.
\* A connection that finds it taken waits (sqlite3.connect's default timeout)
WriteLockFree(e) == \A o \in Engines \ {e} : pc[o] # "redeem_exec"

\* the calls of mark_as_used under way on a card
InFlight(card) == {o \in Engines : txn[o] # None /\ txn[o][1].card = card}

\* mark_as_used, line 138: the call begins and opens its connection
OpenRedeem(e, card) ==
    /\ pc[e] = "ready"
    /\ card \in DOMAIN cards =>
          cards[card].usage_count + Cardinality(InFlight(card)) < MaxUses
    /\ pc' = [pc EXCEPT ![e] = "redeem_open"]
    /\ txn' = [txn EXCEPT ![e] = Some([card |-> card])]
    /\ UNCHANGED <<secret, cards, clock, key, new_key, attempts, batch_size, last>>

\* a call of mark_as_used by engine e
RedeemOpen(e, card) == OpenRedeem(e, card) /\ UNCHANGED flow

\* the usage_count read by a statement of its own, without the write lock, and
\* the row written from it afterwards
RedeemExecuteReadThenWrite(e) ==
    /\ pc[e] = "redeem_open"
    /\ txn' = [txn EXCEPT ![e] =
                  Some([card |-> txn[e][1].card,
                        update |-> sql_update_used(cards, txn[e][1].card, clock)])]
    /\ pc' = [pc EXCEPT ![e] = "redeem_exec"]
    /\ UNCHANGED <<secret, cards, clock, key, new_key, attempts, batch_size, last, flow>>

\* mark_as_used, lines 140-147: conn.execute runs the UPDATE, one statement
\* that reads and writes the row under the write lock, inside the transaction
\* it opens
RedeemExecute(e) ==
    /\ pc[e] = "redeem_open"
    /\ WriteLockFree(e)
    /\ txn' = [txn EXCEPT ![e] =
                  Some([card |-> txn[e][1].card,
                        update |-> sql_update_used(cards, txn[e][1].card, clock)])]
    /\ pc' = [pc EXCEPT ![e] = "redeem_exec"]
    /\ UNCHANGED <<secret, cards, clock, key, new_key, attempts, batch_size, last, flow>>

\* mark_as_used, lines 148-149: commit, return conn.total_changes > 0, and
\* the connection closed on the way out
RedeemCommit(e) ==
    /\ pc[e] = "redeem_exec"
    /\ cards' = db_close(cards, txn[e][1].update.conn, TRUE)
    /\ last' = [op |-> "mark_as_used", card |-> txn[e][1].card,
                ret |-> txn[e][1].update.total_changes > 0]
    /\ pc' = [pc EXCEPT ![e] = "ready"]
    /\ txn' = [txn EXCEPT ![e] = None]
    /\ UNCHANGED <<secret, clock, key, new_key, attempts, batch_size, flow>>

\* generate_card's INSERT waits for the write lock as well
GenerateAttemptLocked(e) == WriteLockFree(e) /\ GenerateAttempt(e)

\* ------------------------------------------------ the confirm-and-redeem flow
\* __main__, lines 176-179: n is read and v = system.verify_card(n)
FlowVerify(e, card) ==
    /\ pc[e] = "ready"
    /\ flow[e] = None
    /\ flow' = [flow EXCEPT ![e] =
                   Some([n |-> card, v |-> verify_card(key[e], card, cards)])]
    /\ last' = [op |-> "verify", card |-> card,
                ret |-> verify_card(key[e], card, cards)]
    /\ UNCHANGED <<secret, cards, clock, pc, key, new_key, attempts, batch_size, txn>>

\* if v['valid'] and not v['is_used']
flow_may_redeem(v) == v.valid /\ v.is_used = Some(FALSE)

\* __main__, lines 180-186: after the sleep and the prompt, the card found
\* valid and unused is redeemed: system.mark_as_used(n) is called
FlowRedeem(e) ==
    /\ flow[e] # None
    /\ flow_may_redeem(flow[e][1].v)
    /\ OpenRedeem(e, flow[e][1].n)
    /\ flow' = [flow EXCEPT ![e] = None]

\* __main__, line 181 false: the flow ends without a call of mark_as_used
FlowEnd(e) ==
    /\ pc[e] = "ready"
    /\ flow[e] # None
    /\ ~flow_may_redeem(flow[e][1].v)
    /\ flow' = [flow EXCEPT ![e] = None]
    /\ UNCHANGED <<secret, cards, clock, pc, key, new_key, attempts, batch_size, last, txn>>

\* ----------------------------------------------------------- specification
Next ==
    \/ \E e \in Engines : LoadKeySelect(e)
    \/ \E e \in Engines : LoadKeyInsert(e)
    \/ \E e \in Engines : Restart(e)
    \/ Tick
    \/ \E e \in Engines, n \in 1..MaxBatch : Generate(e, n)
    \/ \E e \in Engines : GenerateAttempt(e)
    \/ \E e \in Engines, card \in Tokens : Verify(e, card)
    \/ \E e \in Engines, card \in Tokens : Redeem(e, card)
    \/ \E e \in Engines : Stats(e)

Spec == Init /\ [][Next]_vars

\* The engines starting, stopping and generating, without the calls that read
\* the cards table or change only the rows' usage columns (verify_card,
\* mark_as_used, get_card_stats): what a call of generate_card does depends on
\* the card_ids stored and on nothing those calls change.  A call of
\* generate_card that is under way keeps running: nothing in its loop waits on
\* another engine.
NextGenerate ==
    \/ \E e \in Engines : LoadKeySelect(e)
    \/ \E e \in Engines : LoadKeyInsert(e)
    \/ \E e \in Engines : Restart(e)
    \/ Tick
    \/ \E e \in Engines, n \in 1..MaxBatch : Generate(e, n)
    \/ \E e \in Engines : GenerateAttempt(e)

FairGenerateSpec ==
    Init /\ [][NextGenerate]_vars /\ \A e \in Engines : WF_vars(GenerateAttempt(e))

\* The engines starting and generating, and verify_card and mark_as_used
\* called with any token on a store that may fail during the call
IONext ==
    \/ \E e \in Engines : LoadKeySelect(e)
    \/ \E e \in Engines : LoadKeyInsert(e)
    \/ \E e \in Engines, n \in 1..MaxBatch : Generate(e, n)
    \/ \E e \in Engines : GenerateAttempt(e)
    \/ \E e \in Engines, card \in IOTokens, fault \in StoreFaults \ {"commit"} :
            VerifyIO(e, card, fault)
    \/ \E e \in Engines, card \in Tokens \ Malformed, fault \in StoreFaults :
            RedeemIO(e, card, fault)

IOSpec == Init /\ [][IONext]_vars

\* The engines starting and generating, and calls of mark_as_used that run
\* concurrently, statement by statement
RedeemNext ==
    \/ \E e \in Engines : LoadKeySelect(e)
    \/ \E e \in Engines : LoadKeyInsert(e)
    \/ \E e \in Engines, n \in 1..MaxBatch : Generate(e, n)
    \/ \E e \in Engines : GenerateAttemptLocked(e)
    \/ \E e \in Engines, card \in Tokens \ Malformed : RedeemOpen(e, card)
    \/ \E e \in Engines : RedeemExecute(e)
    \/ \E e \in Engines : RedeemCommit(e)

RedeemSpec == Init /\ [][RedeemNext]_vars

\* The engines starting and generating, and callers that redeem only through
\* the confirm-and-redeem flow, any number of flows running concurrently
FlowNext ==
    \/ \E e \in Engines : LoadKeySelect(e)
    \/ \E e \in Engines : LoadKeyInsert(e)
    \/ \E e \in Engines, n \in 1..MaxBatch : Generate(e, n)
    \/ \E e \in Engines : GenerateAttemptLocked(e)
    \/ \E e \in Engines, card \in Tokens \ Malformed : FlowVerify(e, card)
    \/ \E e \in Engines : FlowRedeem(e)
    \/ \E e \in Engines : FlowEnd(e)
    \/ \E e \in Engines : RedeemExecute(e)
    \/ \E e \in Engines : RedeemCommit(e)

FlowSpec == Init /\ [][FlowNext]_vars

\* ------------------------------------------------------------------ claims
\* the step by which engine e's call of generate_card returns a card_id
GenerateReturns(e) ==
    pc[e] = "gen" /\ pc'[e] = "ready" /\ last'.op = "generate" /\ ~last'.raised

\* the step by which engine e's call of generate_card raises RuntimeError
GenerateRaises(e) ==
    pc[e] = "gen" /\ pc'[e] = "ready" /\ last'.op = "generate" /\ last'.raised

\* a pass of engine e's loop that ended in IntegrityError
AttemptFails(e) ==
    pc[e] = "gen" /\ (attempts'[e] = attempts[e] + 1 \/ GenerateRaises(e))

Fresh == Result(TRUE, Some(FALSE), 0, None)

\* C1: every card of a batch that generate_card inserted verifies, right
\* after the call and with the same key, as valid, unused, with usage_count 0
\* and no error.
C1_GeneratedCardsVerify ==
    [][\A e \in Engines : GenerateReturns(e) =>
          \A i \in 1..Len(last'.batch) :
              verify_card(key'[e], last'.batch[i], cards') = Fresh]_vars

\* C2: every stored card_id is a raw part of RawLen characters, the separator,
\* and a signature of SigLen characters, and the raw part holds no separator.
C2_RawPartHasNoSeparator ==
    \A id \in DOMAIN cards :
        /\ id = CardId(cards[id].raw_part, cards[id].signature)
        /\ Len(cards[id].raw_part) = RawLen
        /\ Len(cards[id].signature) = SigLen
        /\ ~Contains(cards[id].raw_part, Sep)

\* C3: each mark_as_used of a stored card returns true, sets is_used and adds
\* exactly 1 to usage_count, and verify_card then reports is_used true and the
\* new usage_count.
C3_RedeemThenVerify ==
    [][\A e \in Engines :
          (last'.op = "mark_as_used" /\ last'.card \in DOMAIN cards
                /\ Redeem(e, last'.card)) =>
              LET card == last'.card IN
              /\ last'.ret = TRUE
              /\ cards'[card].is_used
              /\ cards'[card].usage_count = cards[card].usage_count + 1
              /\ verify_card(key'[e], card, cards') =
                    Result(TRUE, Some(TRUE), cards[card].usage_count + 1, None)]_vars

\* C4: mark_as_used returns true exactly when its token is the card_id of a
\* stored row; on any other token it returns false and changes no row.
C4_RedeemTrueIffStored ==
    [][\A e \in Engines :
          (last'.op = "mark_as_used" /\ Redeem(e, last'.card)) =>
              /\ last'.ret <=> last'.card \in DOMAIN cards
              /\ last'.card \notin DOMAIN cards => cards' = cards]_vars

\* a token of the right shape that is not stored was redeemed: false came back
C4_Witness ==
    /\ last.op = "mark_as_used"
    /\ last.ret = FALSE
    /\ last.card \notin DOMAIN cards
    /\ Len(last.card) = RawLen + 1 + SigLen
    /\ cards # NoRows

\* C5: a call of generate_card that returns has added exactly batch_size rows,
\* kept every row that was there, and returns the card_id of the first
\* candidate of the batch it inserted.
C5_GenerateAddsBatch ==
    [][\A e \in Engines : GenerateReturns(e) =>
          /\ get_card_stats(cards').total = get_card_stats(cards).total + batch_size[e]
          /\ \A id \in DOMAIN cards : id \in DOMAIN cards' /\ cards'[id] = cards[id]
          /\ Len(last'.batch) = batch_size[e]
          /\ last'.ret = last'.batch[1]
          /\ DOMAIN cards' \ DOMAIN cards = {last'.batch[i] : i \in 1..batch_size[e]}]_vars

C5_Witness ==
    /\ last.op = "generate"
    /\ ~last.raised
    /\ Len(last.batch) = 2
    /\ get_card_stats(cards).total = 2

\* C6: a pass of the loop of generate_card that hits a uniqueness violation
\* leaves the cards table as it was: no row of the batch is stored and no
\* stored row changes.
C6_FailedBatchLeavesNoRow ==
    [][\A e \in Engines : AttemptFails(e) => cards' = cards]_vars

\* the call raised on a batch whose first candidate was not stored (rows are
\* never deleted, so it was new when it was inserted) and whose second
\* collided: the first row was in the transaction when the error came
C6_Witness ==
    /\ last.op = "generate"
    /\ last.raised
    /\ Len(last.batch) = 2
    /\ last.batch[1] \notin DOMAIN cards

\* C7: generate_card makes at most 5 passes of its loop, returns on the first
\* pass whose insert raises no uniqueness violation, raises exactly when 5
\* passes have failed, and always ends.
C7_GenerateBounded ==
    /\ [](\A e \in Engines : pc[e] = "gen" => attempts[e] < 5)
    /\ [](last.op = "generate" =>
            /\ last.failed <= 5
            /\ last.raised <=> last.failed = 5)
    /\ [][\A e \in Engines : pc[e] = "gen" /\ pc'[e] = "gen" =>
            attempts'[e] = attempts[e] + 1 \/ attempts'[e] = attempts[e]]_vars
    /\ \A e \in Engines : (pc[e] = "gen") ~> (pc[e] = "ready")

C7_Witness ==
    /\ last.op = "generate"
    /\ last.raised
    /\ last.failed = 5

\* C8: an engine whose INSERT of the secret finds a secret already stored
\* completes its initialisation holding the stored secret.
C8_LoserUsesWinnersSecret ==
    [][\A e \in Engines :
          (pc[e] = "keygen" /\ secret # None /\ pc'[e] # "keygen") =>
              pc'[e] = "ready" /\ key'[e] = secret[1]]_vars

\* C9: the stored secret never changes once written, every initialised engine
\* holds it, and every stored card carries the signature that every
\* initialised engine computes for its raw part, whichever engine issued it.
C9_OneSecret ==
    /\ [][secret # None => secret' = secret]_vars
    /\ [](\A e \in Engines : pc[e] \in {"ready", "gen"} =>
            secret # None /\ key[e] = secret[1])
    /\ [](\A e \in Engines : \A id \in DOMAIN cards : pc[e] \in {"ready", "gen"} =>
            /\ Sign(key[e], cards[id].raw_part) = cards[id].signature
            /\ verify_card(key[e], id, cards) = verify_card(secret[1], id, cards))

\* a card whose issuing engine has stopped verifies under another engine
C9_Witness ==
    /\ last.op = "generate"
    /\ ~last.raised
    /\ pc[last.eng] = "down"
    /\ \E f \in Engines : pc[f] = "ready" /\ verify_card(key[f], last.ret, cards).valid

\* C10: verify_card changes neither the cards table nor the secret, whatever
\* the token, and a second verify_card of the same token right after the
\* first returns the same result.
C10_VerifyReadOnly ==
    [][\A e \in Engines :
          (last'.op = "verify" /\ Verify(e, last'.card)) =>
              /\ cards' = cards
              /\ secret' = secret
              /\ (last.op = "verify" /\ last.card = last'.card) => last'.ret = last.ret]_vars

\* a redeemed card was verified
C10_Witness ==
    /\ last.op = "verify"
    /\ last.ret.valid
    /\ last.ret.usage_count > 0

\* the step by which engine e's call of verify_card, on a store that may fail,
\* ends: last' holds the token, the fault and the outcome
VerifyEnds(e) == last'.op = "verify_card" /\ VerifyIO(e, last'.card, last'.fault)

\* a token that passes the format and the length check
WellShaped(card) ==
    /\ Contains(card, Sep)
    /\ Len(SplitOnce(card).raw) = RawLen
    /\ Len(SplitOnce(card).sign) = SigLen

\* a well-shaped token whose signature part is the signature of its raw part
\* under key k
WellSigned(k, card) ==
    WellShaped(card) /\ SplitOnce(card).sign = Sign(k, SplitOnce(card).raw)

\* C11: verify applies its checks in the order format, length, signature,
\* existence, and the first check that fails decides the result: a token with
\* no separator returns the format error, a token whose raw part or signature
\* part has the wrong length returns the length error, a well-shaped token
\* with a wrong signature returns the signature error, each with valid false
\* and without a lookup in the store, whether or not the store is failing.
C11_ChecksInOrder ==
    [][\A e \in Engines :
          VerifyEnds(e) =>
              /\ ~Contains(last'.card, Sep) =>
                    last'.out = Return(Result(FALSE, None, 0, Some(ErrFormat)), FALSE)
              /\ (Contains(last'.card, Sep) /\ ~WellShaped(last'.card)) =>
                    last'.out = Return(Result(FALSE, None, 0, Some(ErrLength)), FALSE)
              /\ (WellShaped(last'.card) /\ ~WellSigned(key[e], last'.card)) =>
                    last'.out = Return(Result(FALSE, None, 0, Some(ErrSignature)), FALSE)
              /\ last'.out.lookup => WellSigned(key[e], last'.card)]_vars

\* the number of separators in a token
SepCount(card) == Cardinality({i \in 1..Len(card) : card[i] = Sep})

\* C12: the format check of verify accepts only tokens with exactly one
\* separator: a token with no separator, or with two or more, is rejected by
\* the format check (valid false, the format error), before the length and
\* the signature check.
C12_ExactlyOneSeparator ==
    [][\A e \in Engines :
          (VerifyEnds(e) /\ SepCount(last'.card) # 1) =>
              last'.out = Return(Result(FALSE, None, 0, Some(ErrFormat)), FALSE)]_vars

\* token differs from the card c in exactly one character, a character of
\* c's signature
OneSignatureCharReplaced(c, token) ==
    /\ Len(token) = Len(c)
    /\ \E i \in SigPositions(c) :
          token[i] # c[i] /\ \A j \in 1..Len(c) : j # i => token[j] = c[j]

\* C13: for every card c that verify reports valid, and every token obtained
\* from c by replacing exactly one character of the signature with a different
\* character, verify of that token returns valid false with the signature
\* error: never valid, never the not-found or the format error.
C13_TamperedSignatureRejected ==
    [][\A e \in Engines :
          VerifyEnds(e) =>
              \A c \in DOMAIN cards :
                  (/\ verify_card(key[e], c, cards).valid
                   /\ OneSignatureCharReplaced(c, last'.card)) =>
                      last'.out = Return(Result(FALSE, None, 0, Some(ErrSignature)), FALSE)]_vars

\* C14: verify returns valid true only for a token that passes the format,
\* the length and the signature check and whose card_id is in the store when
\* it is looked up, and the is_used and usage_count it then reports are those
\* of the stored row; a well-formed, correctly signed token that is not in the
\* store returns valid false with the error 'card does not exist'.
C14_ValidOnlyForStoredCard ==
    [][\A e \in Engines :
          VerifyEnds(e) =>
              /\ (last'.out.ret # None /\ last'.out.ret[1].valid) =>
                    /\ WellSigned(key[e], last'.card)
                    /\ last'.card \in DOMAIN cards
                    /\ last'.out.ret[1] =
                          Result(TRUE, Some(cards[last'.card].is_used),
                                 cards[last'.card].usage_count, None)
              /\ (/\ WellSigned(key[e], last'.card)
                  /\ last'.card \notin DOMAIN cards
                  /\ last'.fault = "none") =>
                    last'.out = Return(Result(FALSE, None, 0, Some(ErrNotFound)), TRUE)]_vars

\* verify has reported a stored card valid, with the usage its row has after
\* it was redeemed MaxUses times
C14_Witness ==
    /\ last.op = "verify_card"
    /\ last.out.ret # None
    /\ last.out.ret[1].valid
    /\ last.out.ret[1].is_used = Some(TRUE)
    /\ last.out.ret[1].usage_count = MaxUses

\* C15: when the store fails during the lookup of verify (opening the
\* connection, or running the query), for a token that passed the format, the
\* length and the signature check, verify does not raise: it returns valid
\* false with a storage error, which is not the error 'card does not exist'.
C15_StorageFaultReported ==
    [][\A e \in Engines :
          (/\ VerifyEnds(e)
           /\ WellSigned(key[e], last'.card)
           /\ last'.fault \in {"connect", "execute"}) =>
              /\ last'.out.raised = None
              /\ last'.out.ret = Some(Result(FALSE, None, 0, Some(ErrStorage)))
              /\ ErrStorage # ErrNotFound]_vars

\* verify has been called with a stored, redeemed card on a store whose query
\* failed
C15_Witness ==
    /\ last.op = "verify_card"
    /\ last.fault = "execute"
    /\ last.card \in DOMAIN cards
    /\ last.out.lookup
    /\ cards[last.card].usage_count > 0

\* the step by which engine e's call of mark_as_used, on a store that may
\* fail, ends
RedeemEnds(e) == last'.op = "mark_as_used" /\ RedeemIO(e, last'.card, last'.fault)

\* C16: redeem never raises and never reports success on a storage fault: if
\* the store fails at any step (opening the connection, executing the update,
\* committing) redeem returns false, and it returns true only when the update
\* has been committed.
C16_RedeemNeverRaises ==
    [][\A e \in Engines :
          RedeemEnds(e) =>
              /\ last'.raised = None
              /\ last'.fault # "none" => last'.out = Some(FALSE)
              /\ last'.out = Some(TRUE) =>
                    /\ last'.card \in DOMAIN cards
                    /\ cards'[last'.card].usage_count = cards[last'.card].usage_count + 1]_vars

\* C18: over any sequence of generate, verify, redeem and stats, a card's
\* usage_count never decreases, a card once stored is never deleted, its
\* card_id, raw_part, signature and created_at never change, and its used_at
\* is set exactly when its usage_count is greater than zero.
C18_RowsOnlyGrow ==
    [][/\ \A id \in DOMAIN cards :
            /\ id \in DOMAIN cards'
            /\ cards'[id].usage_count >= cards[id].usage_count
            /\ cards'[id].raw_part = cards[id].raw_part
            /\ cards'[id].signature = cards[id].signature
            /\ cards'[id].created_at = cards[id].created_at
       /\ \A id \in DOMAIN cards' :
            /\ id = CardId(cards'[id].raw_part, cards'[id].signature)
            /\ (cards'[id].used_at # None) <=> (cards'[id].usage_count > 0)]_vars

\* two cards are stored, one redeemed twice, after the time of its creation,
\* the other never
C18_Witness ==
    \E id, other \in DOMAIN cards :
        /\ cards[id].usage_count = MaxUses
        /\ cards[id].used_at # Some(cards[id].created_at)
        /\ cards[other].usage_count = 0
        /\ last.op = "stats"

\* C19: stats is read-only, and total is the number of stored cards,
\* used_count the number of stored cards with is_used true, total_uses the sum
\* of usage_count over the stored cards; on an empty store it returns the
\* zeroed structure: total, used_count and total_uses all 0, oldest and newest
\* empty.
C19_StatsCounts ==
    [][\A e \in Engines :
          (last'.op = "stats" /\ Stats(e)) =>
              /\ cards' = cards
              /\ secret' = secret
              /\ last'.ret.total = Cardinality(DOMAIN cards)
              /\ last'.ret.used_count =
                    Some(Cardinality({id \in DOMAIN cards : cards[id].is_used}))
              /\ last'.ret.total_uses =
                    Some(SumCol([id \in DOMAIN cards |-> cards[id].usage_count],
                                DOMAIN cards))
              /\ cards = NoRows =>
                    last'.ret = [total |-> 0, used_count |-> Some(0),
                                 total_uses |-> Some(0), oldest |-> None,
                                 newest |-> None]]_vars

\* the step by which engine e's call of mark_as_used commits and returns
RedeemCommits(e) == pc[e] = "redeem_exec" /\ pc'[e] = "ready"

\* C17: concurrent redeems of one token lose no update: every redeem of a
\* stored card, the store being available, returns true and adds exactly one
\* to the usage_count the store holds when it commits, and nothing else
\* changes a usage_count; so a card's usage_count is its initial value plus
\* the number of redeems of it that returned true.
C17_NoLostUpdate ==
    [][/\ \A e \in Engines :
            (RedeemCommits(e) /\ txn[e][1].card \in DOMAIN cards) =>
                /\ last'.ret = TRUE
                /\ cards'[txn[e][1].card].usage_count =
                      cards[txn[e][1].card].usage_count + 1
                /\ \A id \in DOMAIN cards \ {txn[e][1].card} : cards'[id] = cards[id]
       /\ (\E id \in DOMAIN cards : cards'[id] # cards[id]) =>
              \E e \in Engines : RedeemCommits(e)]_vars

\* two calls of mark_as_used are under way on one stored card: the UPDATE of
\* one has run and is not committed, the other has opened its connection and
\* has its UPDATE still to run
C17_Witness ==
    \E e, o \in Engines :
        /\ pc[e] = "redeem_exec"
        /\ pc[o] = "redeem_open"
        /\ txn[e][1].card = txn[o][1].card
        /\ txn[e][1].card \in DOMAIN cards
        /\ txn[e][1].update.total_changes = 1

\* C20: when every caller redeems a card only after its own verify of that
\* card returned valid true and is_used false, then under any interleaving of
\* the callers the usage_count of every card stays at most 1.
C20_SingleUse == \A id \in DOMAIN cards : cards[id].usage_count <= 1
====
